---- MODULE Spec2Model ----
(***************************************************************************)
(* Shelf-life projection core of app.py.                                   *)
(*                                                                         *)
(* Units.  "Actual result" values and the threshold are integers counting  *)
(* tenths (6.5 is 65); Time_Months is an integer number of months; a       *)
(* rounded crossing month is an integer counting tenths of a month (4.0 is *)
(* 40).  Slopes, intercepts and rates are exact fractions num/den with     *)
(* den > 0: np.polyfit is modelled by the closed form of the least-squares *)
(* line in exact arithmetic.  Values are finite numbers (no NaN means).     *)
(*                                                                         *)
(* State.  df is sensory_grouped, the frame the script builds by grouping  *)
(* on (Test description, Time_Months): one row per test and month, sorted  *)
(* by test and month.  Streamlit runs the script again on every change of  *)
(* the data or of the slider, so each action ends with the summary of the  *)
(* new frame in qa_summary.                                                *)
(***************************************************************************)
EXTENDS Integers, Sequences, FiniteSets

VARIABLES df, threshold_value, qa_summary, dashboard, polyfit_raises,
          sample_name, Time_Months, composite_input, fig_composite,
          trend_input, fig_trend

vars == <<df, threshold_value, qa_summary, dashboard, polyfit_raises,
          sample_name, Time_Months, composite_input, fig_composite,
          trend_input, fig_trend>>
\* the variables of the dashboard run, of the label parser, of the composite
\* index and of the trend chart
trend_vars == <<trend_input, fig_trend>>
summary_vars == <<df, threshold_value, qa_summary, dashboard, polyfit_raises>>
parse_vars == <<sample_name, Time_Months>>
index_vars == <<composite_input, fig_composite>>

\* ----------------------------------------------------------------- bounds
MaxRows == 6
\* rows of the frame in the runs where np.polyfit may raise
MaxFitRows == 4
\* characters of a Sample Name label
MaxLabel == 4
\* rows of the frame given to create_composite_quality_index
MaxIndexRows == 3
\* rows of the frame given to create_enhanced_trend_chart
MaxTrendRows == 4

\* The attributes ("Test description"), in the key order groupby yields.
Tests == <<"Mau", "Mui">>
\* Time_Months of the storage points, "Actual result" means, slider positions
Times == {1, 2, 3, 4}
Values == {50, 60, 64}
Thresholds == {60, 65}
\* the slider's initial position, 6.5
DefaultThreshold == 65

TestSet == {Tests[i] : i \in 1..Len(Tests)}
Rank(test) == CHOOSE i \in 1..Len(Tests) : Tests[i] = test

\* ------------------------------------------------------- result variants
InsufficientData == [kind |-> "Khong du du lieu", val |-> 0]
NoThresholdApproach == [kind |-> "Khong xac dinh (xu huong di ngang hoac giam)", val |-> 0]
AlreadyExceeded == [kind |-> "Da vuot nguong", val |-> 0]
Unknown == [kind |-> "Khong xac dinh", val |-> 0]
ComputationFailed == [kind |-> "Loi khi tinh toan", val |-> 0]
Number(v) == [kind |-> "number", val |-> v]
IsNumber(p) == p.kind = "number"
None == "None"

\* ------------------------------------------------------ frame operations
\* df[df[test_col] == test], rows kept in frame order
GroupOf(frame, test) == SelectSeq(frame, LAMBDA r : r.test = test)

\* keys of df.groupby(test_col): the tests present, in sorted key order
GroupKeys(frame) ==
    SelectSeq(Tests, LAMBDA t : \E i \in 1..Len(frame) : frame[i].test = t)

\* Series.unique(): the tests present, in order of first appearance
RECURSIVE Unique(_)
Unique(frame) ==
    IF frame = <<>> THEN <<>>
    ELSE LET rest == Unique(SubSeq(frame, 1, Len(frame) - 1))
             t == frame[Len(frame)].test
         IN IF \E i \in 1..Len(rest) : rest[i] = t THEN rest ELSE Append(rest, t)

\* insertion of one row into a time-sorted sequence, after equal times
RECURSIVE InsertByTime(_, _)
InsertByTime(sorted, r) ==
    IF sorted = <<>> THEN <<r>>
    ELSE IF sorted[Len(sorted)].time <= r.time THEN Append(sorted, r)
    ELSE Append(InsertByTime(SubSeq(sorted, 1, Len(sorted) - 1), r), sorted[Len(sorted)])

\* slip: the rows are taken in the order of the frame
sort_values_asis(group) == group

\* group.sort_values(time_col)
RECURSIVE sort_values(_)
sort_values(group) ==
    IF group = <<>> THEN <<>>
    ELSE InsertByTime(sort_values(SubSeq(group, 1, Len(group) - 1)), group[Len(group)])

\* slip: the whole history is kept instead of the last n rows
tail_whole(group, n) == group

\* group.tail(n)
tail(group, n) ==
    IF Len(group) <= n THEN group ELSE SubSeq(group, Len(group) - n + 1, Len(group))

\* sum of a sequence of integers
RECURSIVE SumSeq(_)
SumSeq(s) == IF s = <<>> THEN 0 ELSE s[1] + SumSeq(Tail(s))

DistinctTimes(points) == {points[i].time : i \in 1..Len(points)}

\* ---------------------------------------------------------- arithmetic
\* round half to even of a/b, b > 0
RoundHalfEven(a, b) ==
    LET q == a \div b
        r == a - q * b
    IN IF 2 * r < b THEN q
       ELSE IF 2 * r > b THEN q + 1
       ELSE IF q % 2 = 0 THEN q ELSE q + 1

\* slip: the square of the sum of months is dropped from the denominator
polyfit_unsquared(points) ==
    LET n == Len(points)
        sx == SumSeq([i \in 1..n |-> points[i].time])
        sy == SumSeq([i \in 1..n |-> points[i].value])
        sxx == SumSeq([i \in 1..n |-> points[i].time * points[i].time])
        sxy == SumSeq([i \in 1..n |-> points[i].time * points[i].value])
    IN [n |-> n, sx |-> sx, sy |-> sy,
        sn |-> n * sxy - sx * sy,
        sd |-> n * sxx - sx]

\* np.polyfit(x, y, 1): slope = sn/sd, intercept = (sy*sd - sn*sx)/(n*sd)
polyfit(points) ==
    LET n == Len(points)
        sx == SumSeq([i \in 1..n |-> points[i].time])
        sy == SumSeq([i \in 1..n |-> points[i].value])
        sxx == SumSeq([i \in 1..n |-> points[i].time * points[i].time])
        sxy == SumSeq([i \in 1..n |-> points[i].time * points[i].value])
    IN [n |-> n, sx |-> sx, sy |-> sy,
        sn |-> n * sxy - sx * sy,
        sd |-> n * sxx - sx * sx]

\* slip: (intercept - threshold) / slope
projected_month_swapped(fit, threshold) ==
    RoundHalfEven(10 * (fit.sy * fit.sd - fit.sn * fit.sx - threshold * fit.n * fit.sd),
                  fit.n * fit.sn)

\* round((threshold - intercept) / slope, 1), in tenths of a month
projected_month(fit, threshold) ==
    RoundHalfEven(10 * (threshold * fit.n * fit.sd - fit.sy * fit.sd + fit.sn * fit.sx),
                  fit.n * fit.sn)

\* ------------------------------------------------------------ projector
\* slip: slope < 0 instead of slope <= 0 (a zero slope divides to inf)
ProjectFit_strict(fit, last_y, threshold) ==
    IF fit.sn < 0 THEN NoThresholdApproach
    ELSE IF last_y >= threshold THEN AlreadyExceeded
    ELSE Number(IF fit.sn = 0 THEN 9999 ELSE projected_month(fit, threshold))

\* slip: only a zero slope is rejected, a falling line is projected backwards
ProjectFit_unsigned(fit, last_y, threshold) ==
    IF fit.sn = 0 THEN NoThresholdApproach
    ELSE IF last_y >= threshold THEN AlreadyExceeded
    ELSE Number(IF fit.sn > 0 THEN projected_month(fit, threshold)
                ELSE 0 - projected_month_swapped([fit EXCEPT !.sn = 0 - fit.sn], threshold))

\* slip: last_y > threshold, so a value on the threshold is still projected
ProjectFit_above(fit, last_y, threshold) ==
    IF fit.sn <= 0 THEN NoThresholdApproach
    ELSE IF last_y > threshold THEN AlreadyExceeded
    ELSE Number(projected_month(fit, threshold))

\* slip: the latest value is compared with the default threshold of the
\* signature instead of the threshold passed
ProjectFit_default(fit, last_y, threshold) ==
    IF fit.sn <= 0 THEN NoThresholdApproach
    ELSE IF last_y >= DefaultThreshold THEN AlreadyExceeded
    ELSE Number(projected_month(fit, threshold))

\* the branch taken once the fit is available (lines 168-179)
ProjectFit(fit, last_y, threshold) ==
    IF fit.sn <= 0 THEN NoThresholdApproach
    ELSE IF last_y >= threshold THEN AlreadyExceeded
    ELSE Number(projected_month(fit, threshold))

\* slip: three observations required instead of two
ProjectGroup_three(group, threshold) ==
    IF Len(group) < 3 THEN InsufficientData
    ELSE LET recent_points == tail(sort_values(group), 3)
         IN IF Cardinality(DistinctTimes(recent_points)) < 2 THEN InsufficientData
            ELSE ProjectFit(polyfit(recent_points),
                            recent_points[Len(recent_points)].value, threshold)

\* body of the loop over groups, for one test
ProjectGroup(group, threshold) ==
    IF Len(group) < 2 THEN InsufficientData
    ELSE LET recent_points == tail(sort_values(group), 3)
         IN IF Len(recent_points) < 2 THEN InsufficientData
            ELSE IF Cardinality(DistinctTimes(recent_points)) < 2 THEN InsufficientData
            ELSE ProjectFit(polyfit(recent_points),
                            recent_points[Len(recent_points)].value, threshold)

\* the group passes the three early continues and enters the try block
ReachesFit(group) ==
    /\ Len(group) >= 2
    /\ Cardinality(DistinctTimes(tail(sort_values(group), 3))) >= 2

\* the loop body with its try/except: raised says that np.polyfit raises on
\* this group's window
ProjectCaught(group, threshold, raised) ==
    IF raised /\ ReachesFit(group) THEN ComputationFailed
    ELSE ProjectGroup(group, threshold)

\* slip: no except clause, so the first exception leaves the function and no
\* map is returned
calculate_projections_uncaught(frame, threshold, raises) ==
    LET keys == GroupKeys(frame)
    IN IF \E t \in raises : ReachesFit(GroupOf(frame, t)) THEN << >>
       ELSE [t \in {keys[i] : i \in 1..Len(keys)} |-> ProjectGroup(GroupOf(frame, t), threshold)]

\* raises: the tests on whose window np.polyfit raises in this run
calculate_projections(frame, threshold, raises) ==
    LET keys == GroupKeys(frame)
    IN [t \in {keys[i] : i \in 1..Len(keys)} |->
           ProjectCaught(GroupOf(frame, t), threshold, t \in raises)]

\* ----------------------------------------------------------- aggregator
Front(s) == SubSeq(s, 1, Len(s) - 1)
Last(s) == s[Len(s)]

\* slip: max instead of min
MinShelfLife_max(projections) ==
    LET shelf_life_values == {projections[t].val : t \in {u \in DOMAIN projections : IsNumber(projections[u])}}
    IN IF shelf_life_values # {}
       THEN Number(CHOOSE m \in shelf_life_values : \A v \in shelf_life_values : m >= v)
       ELSE Unknown

\* min(shelf_life_values) over the numeric projections, else the sentinel
MinShelfLife(projections) ==
    LET shelf_life_values == {projections[t].val : t \in {u \in DOMAIN projections : IsNumber(projections[u])}}
    IN IF shelf_life_values # {}
       THEN Number(CHOOSE m \in shelf_life_values : \A v \in shelf_life_values : m <= v)
       ELSE Unknown

\* slip: iloc[0], the value of the row with the smallest Time_Months
LatestValues_first(frame) ==
    LET keys == Unique(frame)
    IN [t \in {keys[i] : i \in 1..Len(keys)} |-> sort_values(GroupOf(frame, t))[1].value]

\* latest_values[test] = value of the row with the largest Time_Months
LatestValues(frame) ==
    LET keys == Unique(frame)
    IN [t \in {keys[i] : i \in 1..Len(keys)} |-> Last(sort_values(GroupOf(frame, t))).value]

\* slip: distance <= min_distance, so the last of equal distances wins
RECURSIVE ClosestScan_lastwins(_, _, _)
ClosestScan_lastwins(keys, latest_values, threshold) ==
    IF keys = <<>> THEN [closest_attr |-> None, min_distance |-> 0]
    ELSE LET prev == ClosestScan_lastwins(Front(keys), latest_values, threshold)
             attr == Last(keys)
             value == latest_values[attr]
             distance == threshold - value
         IN IF value < threshold
               /\ (prev.closest_attr = None \/ distance <= prev.min_distance)
            THEN [closest_attr |-> attr, min_distance |-> distance]
            ELSE prev

\* the loop over latest_values.items(), in the order of Unique(frame)
RECURSIVE ClosestScan(_, _, _)
ClosestScan(keys, latest_values, threshold) ==
    IF keys = <<>> THEN [closest_attr |-> None, min_distance |-> 0]
    ELSE LET prev == ClosestScan(Front(keys), latest_values, threshold)
             attr == Last(keys)
             value == latest_values[attr]
             distance == threshold - value
         IN IF value < threshold
               /\ (prev.closest_attr = None \/ distance < prev.min_distance)
            THEN [closest_attr |-> attr, min_distance |-> distance]
            ELSE prev

\* the tests that get an entry in change_rates
HasRate(group) ==
    /\ Len(group) >= 3
    /\ LET recent == tail(sort_values(group), 3)
       IN Last(recent).time > recent[1].time

\* slip: the rate is taken over the last two points of the window
Rate_lasttwo(group) ==
    LET recent == tail(sort_values(group), 3)
    IN [num |-> Last(recent).value - recent[2].value,
        den |-> Last(recent).time - recent[2].time]

\* rate = (last_value - first_value) / (last_month - first_month), as num/den
Rate(group) ==
    LET recent == tail(sort_values(group), 3)
    IN [num |-> Last(recent).value - recent[1].value,
        den |-> Last(recent).time - recent[1].time]

ChangeRates(frame) ==
    LET keys == GroupKeys(frame)
    IN [t \in {u \in {keys[i] : i \in 1..Len(keys)} : HasRate(GroupOf(frame, u))}
          |-> Rate(GroupOf(frame, t))]

\* slip: rates compared by magnitude
RateLess_abs(a, b) ==
    (IF a.num < 0 THEN 0 - a.num ELSE a.num) * b.den
        < (IF b.num < 0 THEN 0 - b.num ELSE b.num) * a.den

\* a < b for fractions with positive denominators
RateLess(a, b) == a.num * b.den < b.num * a.den

\* max(change_rates.items(), key=lambda x: x[1])[0]: the first maximal item
RECURSIVE MaxScan(_, _)
MaxScan(keys, change_rates) ==
    IF keys = <<>> THEN None
    ELSE LET prev == MaxScan(Front(keys), change_rates)
             attr == Last(keys)
         IN IF attr \notin DOMAIN change_rates THEN prev
            ELSE IF prev = None THEN attr
            ELSE IF RateLess(change_rates[prev], change_rates[attr]) THEN attr
            ELSE prev

\* qa_summary when no summary exists: generate_qa_summary returned None for
\* an empty frame, or the script did not call it
NoSummary ==
    [min_shelf_life |-> Unknown, closest_attr |-> None, closest_attr_value |-> 0,
     fastest_attr |-> None, change_rates |-> <<>>, projections |-> <<>>,
     latest_values |-> <<>>]

generate_qa_summary(frame, threshold, raises) ==
    IF frame = <<>> THEN NoSummary
    ELSE
    LET projections == calculate_projections(frame, threshold, raises)
        latest_values == LatestValues(frame)
        closest_attr == ClosestScan(Unique(frame), latest_values, threshold).closest_attr
        change_rates == ChangeRates(frame)
    IN [min_shelf_life |-> MinShelfLife(projections),
        closest_attr |-> closest_attr,
        closest_attr_value |-> IF closest_attr # None THEN latest_values[closest_attr] ELSE 0,
        fastest_attr |-> MaxScan(GroupKeys(frame), change_rates),
        change_rates |-> change_rates,
        projections |-> projections,
        latest_values |-> latest_values]

\* ------------------------------------------------------------ dashboard
\* status_text of the status card
Critical == "Canh bao"
Watch == "Can chu y"
Stable == "On dinh"
Undetermined == "Chua xac dinh"

\* slip: the earliest month is taken as the current month
MinMonth(frame) ==
    CHOOSE m \in {frame[i].time : i \in 1..Len(frame)} :
        \A i \in 1..Len(frame) : frame[i].time >= m

\* max(sensory_grouped["Time_Months"])
MaxMonth(frame) ==
    CHOOSE m \in {frame[i].time : i \in 1..Len(frame)} :
        \A i \in 1..Len(frame) : frame[i].time <= m

\* slip: a non-numeric shelf life falls into the last numeric tier
StatusText_nofallback(min_shelf_life, current_month) ==
    LET remaining_months == min_shelf_life.val - 10 * current_month
    IN IF IsNumber(min_shelf_life) /\ remaining_months <= 10 THEN Critical
       ELSE IF IsNumber(min_shelf_life) /\ remaining_months <= 30 THEN Watch
       ELSE Stable

\* the status indicator (lines 316-343); remaining_months in tenths
StatusText(min_shelf_life, current_month) ==
    IF IsNumber(min_shelf_life)
    THEN LET remaining_months == min_shelf_life.val - 10 * current_month
         IN IF remaining_months <= 10 THEN Critical
            ELSE IF remaining_months <= 30 THEN Watch
            ELSE Stable
    ELSE Undetermined

\* arrow of the fastest-changing card (lines 413-421)
Up == "up"
Down == "down"
Arrow(change_rate) == IF change_rate.num > 0 THEN Up ELSE Down

\* what the dashboard shows when the frame is empty: the info message only
NoDashboard == [status_text |-> None, arrow |-> None]

create_improved_dashboard(frame, threshold, summary) ==
    IF frame # <<>>
    THEN [status_text |-> StatusText(summary.min_shelf_life, MaxMonth(frame)),
          arrow |-> IF summary.fastest_attr # None
                    THEN Arrow(summary.change_rates[summary.fastest_attr])
                    ELSE None]
    ELSE NoDashboard

\* the script body after the frame is built (lines 472-476)
Rerun(frame, threshold, raises) ==
    IF frame # <<>> THEN generate_qa_summary(frame, threshold, raises) ELSE NoSummary

\* the dashboard drawn by that run
Shown(frame, threshold, summary) ==
    IF frame # <<>>
    THEN create_improved_dashboard(frame, threshold, summary)
    ELSE NoDashboard

\* ------------------------------------------------------ parse_sample_name
\* A cell of the column "Sample Name": a string, as the sequence of its
\* characters, or a value that is not a string (an empty cell is a float NaN).
Str(chars) == [is_str |-> TRUE, chars |-> chars]
NonString == [is_str |-> FALSE, chars |-> <<>>]

\* the characters str.isdigit and str.isalpha accept, among those of the labels
DigitChars == <<"0", "1", "2", "3", "4", "5", "6", "7", "8", "9">>
UpperChars == <<"D", "M", "O", "R", "W", "X", "Y">>
LowerChars == <<"d", "m", "o", "r", "w", "x", "y">>
isdigit(c) == \E i \in 1..Len(DigitChars) : DigitChars[i] = c
isalpha(c) ==
    \/ \E i \in 1..Len(UpperChars) : UpperChars[i] = c
    \/ \E i \in 1..Len(LowerChars) : LowerChars[i] = c

\* slip: the unit is compared as written
upper_asis(letters) == letters

\* str.upper
upper(letters) ==
    [i \in 1..Len(letters) |->
        IF \E k \in 1..Len(LowerChars) : LowerChars[k] = letters[i]
        THEN UpperChars[CHOOSE k \in 1..Len(LowerChars) : LowerChars[k] = letters[i]]
        ELSE letters[i]]

\* sample_name.split('-')[0]
FirstPart(chars) ==
    IF \E i \in 1..Len(chars) : chars[i] = "-"
    THEN SubSeq(chars, 1, (CHOOSE i \in 1..Len(chars) :
                              /\ chars[i] = "-"
                              /\ \A j \in 1..(i - 1) : chars[j] # "-") - 1)
    ELSE chars

\* float(num_str) of a non-empty string of digits
RECURSIVE float(_)
float(num_str) ==
    IF num_str = <<>> THEN 0
    ELSE 10 * float(Front(num_str))
         + (CHOOSE i \in 1..Len(DigitChars) : DigitChars[i] = Last(num_str)) - 1

\* results: a number of months as the fraction num/den, None, or an exception
Months(num, den) == [kind |-> "float", num |-> num, den |-> den]
NoMonths == [kind |-> "None", num |-> 0, den |-> 1]
Raised == [kind |-> "raised", num |-> 0, den |-> 1]

\* the body of the try block (lines 264-275)
ParseBody(name) ==
    IF ~name.is_str THEN Raised
    ELSE LET part == FirstPart(name.chars)
             num_str == SelectSeq(part, isdigit)
             unit == upper(SelectSeq(part, isalpha))
         IN IF num_str = <<>> THEN Raised
            ELSE LET num == float(num_str)
                 IN IF unit = <<"D">> THEN Months(num, 30)
                    \* 4.345 = 869/200
                    ELSE IF unit = <<"W">> THEN Months(200 * num, 869)
                    ELSE IF unit = <<"M">> THEN Months(num, 1)
                    ELSE NoMonths

\* slip: no except clause
parse_sample_name_uncaught(name) == ParseBody(name)

parse_sample_name(name) ==
    IF ParseBody(name) = Raised THEN NoMonths ELSE ParseBody(name)

\* ----------------------------------------- create_composite_quality_index
\* A row of the frame given to the function; nan says that "Actual result" is
\* NaN (every result of the group was coerced by pd.to_numeric), value is
\* then 0.
IndexRow(test, time, value, nan) ==
    [test |-> test, time |-> time, value |-> value, nan |-> nan]

\* sorted(sensory_grouped['Time_Months'].unique())
RECURSIVE SortedSeq(_)
SortedSeq(S) ==
    IF S = {} THEN <<>>
    ELSE LET m == CHOOSE x \in S : \A y \in S : y <= x
         IN Append(SortedSeq(S \ {m}), m)
all_times(frame) == SortedSeq({frame[i].time : i \in 1..Len(frame)})

\* slip: the distance is not cut at zero
Distance_signed(row, threshold) ==
    IF row.nan THEN 0 ELSE 100 * (threshold - row.value)

\* max(0, (threshold_value - row['Actual result']) / threshold_value * 100),
\* times threshold_value; for a NaN the comparison of max fails and 0 stays
Distance(row, threshold) ==
    IF row.nan THEN 0
    ELSE IF 100 * (threshold - row.value) > 0 THEN 100 * (threshold - row.value)
    ELSE 0

\* the entry of composite_data for one time point: Quality_Index is
\* 100 - mean(distances) as the fraction num/den
CompositeEntry(frame, threshold, time_point) ==
    LET time_data == SelectSeq(frame, LAMBDA r : r.time = time_point)
        distances == [i \in 1..Len(time_data) |-> Distance(time_data[i], threshold)]
    IN [Time_Months |-> time_point,
        Quality_Index |-> [num |-> 100 * Len(distances) * threshold - SumSeq(distances),
                           den |-> Len(distances) * threshold],
        Count |-> Len(distances)]

\* the result: None, or the figure drawn from composite_data
NoFigure == [fig |-> FALSE, composite_data |-> <<>>]
Figure(composite_data) == [fig |-> TRUE, composite_data |-> composite_data]

create_composite_quality_index(frame, threshold) ==
    IF frame = <<>> THEN NoFigure
    ELSE IF Len(all_times(frame)) < 2 THEN NoFigure
    ELSE LET times == all_times(frame)
             kept == SelectSeq(times, LAMBDA t :
                         Len(SelectSeq(frame, LAMBDA r : r.time = t)) > 0)
             composite_data == [i \in 1..Len(kept) |-> CompositeEntry(frame, threshold, kept[i])]
         IN IF composite_data = <<>> THEN NoFigure ELSE Figure(composite_data)

\* -------------------------------------------- create_enhanced_trend_chart
\* a quotient of floats: the fraction num/den (den # 0), or the inf that
\* numpy returns for a division of a positive number by 0.0
Ratio(num, den) == [kind |-> "float", num |-> num, den |-> den]
Infinite == [kind |-> "inf", num |-> 0, den |-> 1]

\* no regression over the whole history: the projection is not a number, or
\* the test has fewer than 3 rows
NoFit == [fitted |-> FALSE, n |-> 0, slope |-> Ratio(0, 1), time_to_threshold |-> Ratio(0, 1)]

\* the body of the loop over projections.items() for one test (lines 546-569):
\* np.polyfit over all rows of test_data, then
\* time_to_threshold = (threshold_value - last_value) / slope
TrendEntry(test_data, threshold, proj_month) ==
    IF IsNumber(proj_month) /\ Len(test_data) > 1 /\ Len(test_data) >= 3
    THEN LET fit == polyfit(test_data)
             last_value == Last(test_data).value
         IN [fitted |-> TRUE,
             n |-> Len(test_data),
             slope |-> Ratio(fit.sn, fit.sd),
             time_to_threshold |->
                 IF fit.sn = 0 THEN Infinite
                 ELSE Ratio((threshold - last_value) * fit.sd, fit.sn)]
    ELSE NoFit

create_enhanced_trend_chart(frame, threshold, projections) ==
    [t \in DOMAIN projections |->
        TrendEntry(sort_values(GroupOf(frame, t)), threshold, projections[t])]

\* ------------------------------------------------------------- behaviour
Row(test, time, value) == [test |-> test, time |-> time, value |-> value]

\* a row that sorts after every row of the grouped frame
SortsAfter(frame, r) ==
    IF frame = <<>> THEN TRUE
    ELSE IF Last(frame).test = r.test THEN Last(frame).time < r.time
    ELSE Rank(Last(frame).test) < Rank(r.test)

Init ==
    /\ df = <<>>
    /\ threshold_value = DefaultThreshold
    /\ qa_summary = NoSummary
    /\ dashboard = NoDashboard
    /\ polyfit_raises = {}
    /\ sample_name = Str(<<>>)
    /\ Time_Months = NoMonths
    /\ composite_input = [sensory_grouped |-> <<>>, threshold_value |-> DefaultThreshold]
    /\ fig_composite = NoFigure
    /\ trend_input = [sensory_grouped |-> <<>>, threshold_value |-> DefaultThreshold,
                      projections |-> << >>]
    /\ fig_trend = << >>

\* one more (test, month) group in sensory_grouped; the script reruns
LoadData(test, time, value) ==
    /\ Len(df) < MaxRows
    /\ SortsAfter(df, Row(test, time, value))
    /\ df' = Append(df, Row(test, time, value))
    /\ polyfit_raises' = {}
    /\ qa_summary' = Rerun(df', threshold_value, polyfit_raises')
    /\ dashboard' = Shown(df', threshold_value, qa_summary')
    /\ UNCHANGED <<threshold_value, parse_vars, index_vars, trend_vars>>

\* the sidebar slider moves; the script reruns
SetThreshold(threshold) ==
    /\ threshold # threshold_value
    /\ threshold_value' = threshold
    /\ polyfit_raises' = {}
    /\ qa_summary' = Rerun(df, threshold, polyfit_raises')
    /\ dashboard' = Shown(df, threshold, qa_summary')
    /\ UNCHANGED <<df, parse_vars, index_vars, trend_vars>>

Next ==
    \/ \E test \in TestSet, time \in Times, value \in Values : LoadData(test, time, value)
    \/ \E threshold \in Thresholds : SetThreshold(threshold)

Spec == Init /\ [][Next]_vars

\* a run of the script in which np.polyfit raises on the windows of the tests
\* in raises; the except clause of calculate_projections catches each of them
FitRaises(raises) ==
    /\ raises # {}
    /\ \A t \in raises : ReachesFit(GroupOf(df, t))
    /\ polyfit_raises' = raises
    /\ qa_summary' = Rerun(df, threshold_value, raises)
    /\ dashboard' = Shown(df, threshold_value, qa_summary')
    /\ UNCHANGED <<df, threshold_value, parse_vars, index_vars, trend_vars>>

\* the runs with data on which the fit can fail, on frames of at most
\* MaxFitRows rows
NextFit ==
    \/ /\ Len(df) < MaxFitRows
       /\ \E test \in TestSet, time \in Times, value \in Values : LoadData(test, time, value)
    \/ \E threshold \in Thresholds : SetThreshold(threshold)
    \/ \E raises \in SUBSET TestSet : FitRaises(raises)

SpecFit == Init /\ [][NextFit]_vars

\* the characters the labels are made of
Chars == {"0", "1", "3", "D", "W", "M", "m", "X", "-", "."}

\* parse_sample_name is applied to a cell holding the label one character
\* longer (line 283)
ApplyLabel(c) ==
    /\ sample_name.is_str
    /\ Len(sample_name.chars) < MaxLabel
    /\ sample_name' = Str(Append(sample_name.chars, c))
    /\ Time_Months' = parse_sample_name(sample_name')
    /\ UNCHANGED <<summary_vars, index_vars, trend_vars>>

\* parse_sample_name is applied to a cell that holds no string
ApplyNonString ==
    /\ sample_name.is_str
    /\ sample_name' = NonString
    /\ Time_Months' = parse_sample_name(sample_name')
    /\ UNCHANGED <<summary_vars, index_vars, trend_vars>>

NextParse ==
    \/ \E c \in Chars : ApplyLabel(c)
    \/ ApplyNonString

SpecParse == Init /\ [][NextParse]_vars

\* create_composite_quality_index is applied to the frame with one more
\* (test, month) group, whose mean is a number or NaN
CompositeOfFrame(test, time, value, nan) ==
    /\ Len(composite_input.sensory_grouped) < MaxIndexRows
    /\ SortsAfter(composite_input.sensory_grouped, IndexRow(test, time, value, nan))
    /\ nan => value = 0
    /\ composite_input' =
          [composite_input EXCEPT !.sensory_grouped = Append(@, IndexRow(test, time, value, nan))]
    /\ fig_composite' = create_composite_quality_index(composite_input'.sensory_grouped,
                                                        composite_input'.threshold_value)
    /\ UNCHANGED <<summary_vars, parse_vars, trend_vars>>

\* create_composite_quality_index is applied with another threshold
CompositeOfThreshold(threshold) ==
    /\ threshold # composite_input.threshold_value
    /\ composite_input' = [composite_input EXCEPT !.threshold_value = threshold]
    /\ fig_composite' = create_composite_quality_index(composite_input'.sensory_grouped,
                                                        composite_input'.threshold_value)
    /\ UNCHANGED <<summary_vars, parse_vars, trend_vars>>

NextIndex ==
    \/ \E test \in TestSet, time \in Times, value \in Values :
           CompositeOfFrame(test, time, value, FALSE)
    \/ \E test \in TestSet, time \in Times : CompositeOfFrame(test, time, 0, TRUE)
    \/ \E threshold \in Thresholds : CompositeOfThreshold(threshold)

SpecIndex == Init /\ [][NextIndex]_vars

\* the arguments of the call of line 1245: a frame, the threshold and the
\* projections of the summary of that frame
TrendArgs(frame, threshold) ==
    [sensory_grouped |-> frame, threshold_value |-> threshold,
     projections |-> generate_qa_summary(frame, threshold, {}).projections]

\* create_enhanced_trend_chart is applied to the frame with one more
\* (test, month) group
TrendOfFrame(test, time, value) ==
    /\ Len(trend_input.sensory_grouped) < MaxTrendRows
    /\ SortsAfter(trend_input.sensory_grouped, Row(test, time, value))
    /\ trend_input' = TrendArgs(Append(trend_input.sensory_grouped, Row(test, time, value)),
                                trend_input.threshold_value)
    /\ fig_trend' = create_enhanced_trend_chart(trend_input'.sensory_grouped,
                                                trend_input'.threshold_value,
                                                trend_input'.projections)
    /\ UNCHANGED <<summary_vars, parse_vars, index_vars>>

\* create_enhanced_trend_chart is applied with another threshold
TrendOfThreshold(threshold) ==
    /\ threshold # trend_input.threshold_value
    /\ trend_input' = TrendArgs(trend_input.sensory_grouped, threshold)
    /\ fig_trend' = create_enhanced_trend_chart(trend_input'.sensory_grouped,
                                                trend_input'.threshold_value,
                                                trend_input'.projections)
    /\ UNCHANGED <<summary_vars, parse_vars, index_vars>>

NextTrend ==
    \/ \E test \in TestSet, time \in Times, value \in Values : TrendOfFrame(test, time, value)
    \/ \E threshold \in Thresholds : TrendOfThreshold(threshold)

SpecTrend == Init /\ [][NextTrend]_vars

\* =================================================================== claims
\* Helpers of the statements below.  They read the grouped frame directly
\* (its rows are sorted by test and month) and state the least-squares line
\* by pairwise differences, independently of polyfit above.

Present == {df[i].test : i \in 1..Len(df)}
Obs(t) == SelectSeq(df, LAMBDA r : r.test = t)
WindowLen(t) == IF Len(Obs(t)) < 3 THEN Len(Obs(t)) ELSE 3
Window(t) == [i \in 1..WindowLen(t) |-> Obs(t)[Len(Obs(t)) - WindowLen(t) + i]]
Latest(t) == Obs(t)[Len(Obs(t))]
Proj(t) == qa_summary.projections[t]

\* sum over the pairs i < j of w of G(w[i], w[j])
PairTerms(w, G(_, _)) ==
    [k \in 1..(Len(w) * Len(w)) |->
        LET i == ((k - 1) \div Len(w)) + 1
            j == ((k - 1) % Len(w)) + 1
        IN IF i < j THEN G(w[i], w[j]) ELSE 0]

\* slope of the least-squares line of w is SlopeNum(w) / SlopeDen(w)
SlopeNum(w) == SumSeq(PairTerms(w, LAMBDA a, b : (a.time - b.time) * (a.value - b.value)))
SlopeDen(w) == SumSeq(PairTerms(w, LAMBDA a, b : (a.time - b.time) * (a.time - b.time)))
SumTime(w) == SumSeq([i \in 1..Len(w) |-> w[i].time])
SumValue(w) == SumSeq([i \in 1..Len(w) |-> w[i].value])

\* the line passes through the centroid, so it meets `threshold` at the month
\* CrossNum / CrossDen (meaningful when SlopeNum(w) > 0)
CrossNum(w, threshold) ==
    SumTime(w) * SlopeNum(w) + (threshold * Len(w) - SumValue(w)) * SlopeDen(w)
CrossDen(w) == Len(w) * SlopeNum(w)

\* the line's value at month x is below / at or above `threshold`
FittedBelow(w, x, threshold) ==
    SumValue(w) * SlopeDen(w) + (x * Len(w) - SumTime(w)) * SlopeNum(w)
        < threshold * Len(w) * SlopeDen(w)

Abs(x) == IF x < 0 THEN 0 - x ELSE x

\* r tenths is a nearest tenth of num/den, den > 0
NearestTenth(r, num, den) == 2 * Abs(r * den - 10 * num) <= den

StrictlyIncreasing(g) == \A i \in 1..(Len(g) - 1) : g[i].value < g[i + 1].value
AllBelow(g, threshold) == \A i \in 1..Len(g) : g[i].value < threshold
Constant(g) == \A i \in 1..Len(g) : g[i].value = g[1].value

\* C1: whenever the latest value of an attribute with at least two months is
\* at or above the threshold, its projection is AlreadyExceeded, whatever the
\* sign of the fitted slope.
C1_ExceededWhateverSlope ==
    \A t \in Present :
        (Len(Obs(t)) >= 2 /\ Latest(t).value >= threshold_value)
            => Proj(t) = AlreadyExceeded

\* C2: with a positive least-squares slope over the last min(3, count)
\* observations and the latest value below the threshold, the projection is
\* the number (threshold - intercept) / slope of that window's line, rounded
\* to one decimal; (1,5.0),(2,5.5),(3,6.0) with threshold 6.5 give 4.0.
C2_CrossingOfWindowLine ==
    /\ \A t \in Present :
        (Len(Obs(t)) >= 2 /\ SlopeNum(Window(t)) > 0
            /\ Latest(t).value < threshold_value)
        => /\ IsNumber(Proj(t))
           /\ NearestTenth(Proj(t).val, CrossNum(Window(t), threshold_value),
                           CrossDen(Window(t)))
    /\ ProjectGroup(<<Row("Mau", 1, 50), Row("Mau", 2, 55), Row("Mau", 3, 60)>>, 65)
          = Number(40)

\* a four-month attribute whose crossing needed rounding
C2_Witness ==
    \E t \in Present :
        /\ Len(Obs(t)) = 4
        /\ IsNumber(Proj(t))
        /\ (10 * CrossNum(Window(t), threshold_value)) % CrossDen(Window(t)) # 0

C4_ExactLineFit ==
    \A t \in Present :
        (Len(Obs(t)) = 2 /\ Obs(t)[1].value < Obs(t)[2].value
            /\ Obs(t)[2].value < threshold_value)
        => LET t1 == Obs(t)[1].time
               v1 == Obs(t)[1].value
               t2 == Obs(t)[2].time
               v2 == Obs(t)[2].value
           IN /\ IsNumber(Proj(t))
              /\ NearestTenth(Proj(t).val,
                              t2 * (v2 - v1) + (threshold_value - v2) * (t2 - t1),
                              v2 - v1)

\* two observations two or more months apart, with a crossing off the grid
C4_Witness ==
    \E t \in Present :
        /\ Len(Obs(t)) = 2
        /\ Obs(t)[2].time - Obs(t)[1].time >= 2
        /\ IsNumber(Proj(t))
        /\ Proj(t).val % 10 # 0

C6_NumberOnlyOnPositiveSlope ==
    \A t \in Present :
        Len(Obs(t)) >= 2 =>
            /\ IsNumber(Proj(t)) => SlopeNum(Window(t)) > 0
            /\ (SlopeNum(Window(t)) <= 0 /\ Latest(t).value < threshold_value)
                  => Proj(t) = NoThresholdApproach

\* a falling window and a flat-fitting, non-constant window, both below
C6_Witness ==
    /\ \E t \in Present :
        /\ Len(Obs(t)) >= 2 /\ SlopeNum(Window(t)) < 0
        /\ Latest(t).value < threshold_value
        /\ Proj(t) = NoThresholdApproach
    /\ \E t \in Present :
        /\ Len(Obs(t)) >= 3 /\ SlopeNum(Window(t)) = 0 /\ ~Constant(Window(t))
        /\ Latest(t).value < threshold_value

\* C7: InsufficientData exactly for an attribute with fewer than two
\* observations or a window on a single month; a single-observation
\* attribute has no entry in change_rates.
C7_InsufficientExactly ==
    \A t \in Present :
        /\ Proj(t) = InsufficientData
              <=> (Len(Obs(t)) < 2 \/ Cardinality(DistinctTimes(Window(t))) < 2)
        /\ Len(Obs(t)) = 1
              => (Proj(t) = InsufficientData /\ t \notin DOMAIN qa_summary.change_rates)

\* a single-observation attribute beside one that has a rate
C7_Witness ==
    /\ \E t \in Present : Len(Obs(t)) = 1 /\ Proj(t) = InsufficientData
    /\ \E t \in Present :
        /\ Len(Obs(t)) >= 3
        /\ Proj(t) # InsufficientData
        /\ t \in DOMAIN qa_summary.change_rates

NumericTests == {t \in Present : IsNumber(Proj(t))}

\* C8: min_shelf_life is the least numeric projection (<= each of them and
\* equal to one), and the Unknown sentinel when there is none; projections
\* 4.0 and 6.0 give 4.0.
C8_MinShelfLife ==
    /\ df # <<>> =>
        IF NumericTests = {} THEN qa_summary.min_shelf_life = Unknown
        ELSE /\ IsNumber(qa_summary.min_shelf_life)
             /\ \A t \in NumericTests : qa_summary.min_shelf_life.val <= Proj(t).val
             /\ \E t \in NumericTests : qa_summary.min_shelf_life.val = Proj(t).val
    /\ MinShelfLife([t \in TestSet |-> IF t = Tests[1] THEN Number(40) ELSE Number(60)])
          = Number(40)
    /\ MinShelfLife([t \in TestSet |-> IF t = Tests[1] THEN Number(60) ELSE Number(40)])
          = Number(40)

\* two different numeric projections, the later test holding the minimum
C8_Witness ==
    /\ Cardinality(NumericTests) = 2
    /\ Proj(Tests[2]).val < Proj(Tests[1]).val
    /\ qa_summary.min_shelf_life = Proj(Tests[2])

\* position of a test in the order latest_values is iterated (first
\* appearance in the frame)
FirstRow(t) == CHOOSE i \in 1..Len(df) : df[i].test = t /\ \A j \in 1..(i - 1) : df[j].test # t
BelowTests == {t \in Present : Latest(t).value < threshold_value}

\* C9: closest_attr is the attribute below the threshold with the least
\* distance threshold - latest value, the first one encountered among equal
\* distances; attributes at or above the threshold are never chosen, and
\* closest_attr is None when every attribute is at or above it.
C9_ClosestBelowThreshold ==
    df # <<>> =>
        IF BelowTests = {} THEN qa_summary.closest_attr = None
        ELSE /\ qa_summary.closest_attr \in BelowTests
             /\ \A u \in BelowTests :
                   \/ Latest(qa_summary.closest_attr).value > Latest(u).value
                   \/ /\ Latest(qa_summary.closest_attr).value = Latest(u).value
                      /\ FirstRow(qa_summary.closest_attr) <= FirstRow(u)

\* two attributes at the same distance below the threshold
C9_Witness ==
    /\ Cardinality(BelowTests) = 2
    /\ Latest(Tests[1]).value = Latest(Tests[2]).value
    /\ qa_summary.closest_attr = Tests[1]

\* one attribute at or above the threshold, the other below it and chosen
C9_WitnessExcluded ==
    /\ Cardinality(Present) = 2
    /\ Cardinality(BelowTests) = 1
    /\ qa_summary.closest_attr \in BelowTests

RateOf(t) == qa_summary.change_rates[t]
\* a.num/a.den < b.num/b.den, denominators positive
FracLess(a, b) == a.num * b.den < b.num * a.den
Rated == DOMAIN qa_summary.change_rates

\* C10 as stated: fastest_attr has the maximum signed rate, and an attribute
\* with a negative rate is never selected.
C10_ImprovingNeverSelected ==
    qa_summary.fastest_attr # None =>
        /\ \A u \in Rated : ~FracLess(RateOf(qa_summary.fastest_attr), RateOf(u))
        /\ RateOf(qa_summary.fastest_attr).num >= 0

\* C10 amended: fastest_attr has the maximum signed rate (the first such in
\* key order), not the maximum magnitude; an attribute with a negative rate
\* is selected only when every rate is negative; +0.3 beats -0.5.
C10_MaxSignedRate ==
    /\ df # <<>> =>
        IF Rated = {} THEN qa_summary.fastest_attr = None
        ELSE /\ qa_summary.fastest_attr \in Rated
             /\ \A u \in Rated :
                   \/ FracLess(RateOf(u), RateOf(qa_summary.fastest_attr))
                   \/ /\ ~FracLess(RateOf(qa_summary.fastest_attr), RateOf(u))
                      /\ Rank(qa_summary.fastest_attr) <= Rank(u)
             /\ RateOf(qa_summary.fastest_attr).num < 0
                   => \A u \in Rated : RateOf(u).num < 0
    /\ MaxScan(Tests, [t \in TestSet |->
            IF t = Tests[1] THEN [num |-> 3, den |-> 1] ELSE [num |-> 0 - 5, den |-> 1]])
          = Tests[1]
    /\ MaxScan(Tests, [t \in TestSet |->
            IF t = Tests[1] THEN [num |-> 0 - 5, den |-> 1] ELSE [num |-> 3, den |-> 1]])
          = Tests[2]

\* a worsening attribute chosen over a faster improving one
C10_Witness ==
    /\ Cardinality(Rated) = 2
    /\ qa_summary.fastest_attr = Tests[2]
    /\ RateOf(Tests[2]).num > 0
    /\ RateOf(Tests[1]).num < 0
    /\ FracLess([num |-> RateOf(Tests[2]).num, den |-> RateOf(Tests[2]).den],
                [num |-> 0 - RateOf(Tests[1]).num, den |-> RateOf(Tests[1]).den])

\* the latest month on which any attribute was observed
CurrentMonth == CHOOSE m \in {Latest(t).time : t \in Present} :
                    \A t \in Present : Latest(t).time <= m
\* min_shelf_life minus the current month, in tenths of a month
Remaining == qa_summary.min_shelf_life.val - 10 * CurrentMonth

\* C11: the status tier is decided by remainingMonths = min_shelf_life -
\* (latest month over all attributes): <= 1 Critical, (1, 3] Watch, > 3
\* Stable, and Undetermined when min_shelf_life is not a number; one tier
\* for every non-empty frame.
C11_StatusTier ==
    /\ df # <<>> =>
        /\ dashboard.status_text \in {Critical, Watch, Stable, Undetermined}
        /\ dashboard.status_text = Undetermined <=> ~IsNumber(qa_summary.min_shelf_life)
        /\ IsNumber(qa_summary.min_shelf_life) =>
            /\ dashboard.status_text = Critical <=> Remaining <= 10
            /\ dashboard.status_text = Watch <=> (10 < Remaining /\ Remaining <= 30)
            /\ dashboard.status_text = Stable <=> Remaining > 30
    /\ StatusText(Number(40), 3) = Critical
    /\ StatusText(Number(41), 3) = Watch
    /\ StatusText(Number(60), 3) = Watch
    /\ StatusText(Number(61), 3) = Stable

\* the tier is Watch, and the minimum belongs to an attribute last measured
\* before the current month
C11_Witness ==
    /\ dashboard.status_text = Watch
    /\ Cardinality(Present) = 2
    /\ \E t \in Present :
        /\ Proj(t) = qa_summary.min_shelf_life
        /\ Latest(t).time < CurrentMonth

C11_ReachCritical == dashboard.status_text = Critical /\ Remaining < 0
C11_ReachStable == dashboard.status_text = Stable
C11_ReachUndetermined == df # <<>> /\ dashboard.status_text = Undetermined

\* C12: an attribute has an entry in change_rates exactly when it has at least
\* three observations and the first and last months of its last-three window
\* differ; the entry is (value_last - value_first) / (month_last - month_first)
\* over the endpoints of that window, whatever the middle point is.
C12_RateIsWindowSecant ==
    /\ \A t \in Present :
        /\ t \in Rated <=>
              /\ Len(Obs(t)) >= 3
              /\ Window(t)[3].time # Window(t)[1].time
        /\ t \in Rated =>
              /\ RateOf(t).den > 0
              /\ RateOf(t).num * (Window(t)[3].time - Window(t)[1].time)
                    = (Window(t)[3].value - Window(t)[1].value) * RateOf(t).den
    /\ Rated \subseteq Present
    \* a window whose three observations share one month produces no rate
    /\ ~HasRate(<<Row("Mau", 2, 50), Row("Mau", 2, 60), Row("Mau", 2, 64)>>)
    /\ ChangeRates(<<Row("Mau", 2, 50), Row("Mau", 2, 60), Row("Mau", 2, 64)>>) = << >>

\* a rated attribute with four observations whose window is not collinear, next
\* to an attribute with two observations that has no rate
C12_Witness ==
    \E t, u \in Present :
        /\ t \in Rated /\ Len(Obs(t)) = 4
        /\ (Window(t)[2].value - Window(t)[1].value) * (Window(t)[3].time - Window(t)[2].time)
             # (Window(t)[3].value - Window(t)[2].value) * (Window(t)[2].time - Window(t)[1].time)
        /\ Obs(t)[1].value # Window(t)[1].value
        /\ Len(Obs(u)) = 2 /\ u \notin Rated

\* the band of 0.1 units per month, in tenths of a unit per month
Worsening(rate) == rate.num > rate.den
Improving(rate) == rate.num < 0 - rate.den

\* C13 as stated: the rate shown on the dashboard is classified against the
\* band of 0.1 units per month: it is marked as rising (worsening) only above
\* +0.1, as falling (improving) only below -0.1, and a rate within the band is
\* marked as neither.
C13_RateClassifiedByBand ==
    (df # <<>> /\ qa_summary.fastest_attr # None) =>
        /\ dashboard.arrow = Up <=> Worsening(RateOf(qa_summary.fastest_attr))
        /\ dashboard.arrow = Down <=> Improving(RateOf(qa_summary.fastest_attr))

\* C14 as stated: for an empty attribute set and for an input in which every
\* attribute is InsufficientData, a summary is produced and its status tier is
\* Unknown.
C14_SummaryAlwaysProduced ==
    (\A t \in Present : Proj(t) = InsufficientData) =>
        /\ qa_summary # NoSummary
        /\ dashboard.status_text = Undetermined

\* C14, amended: for an empty attribute set there is no summary and no status
\* tier, only the no-data message; for every non-empty input a summary is
\* produced, and when no attribute has a numeric projection (every attribute
\* InsufficientData included) its shelf life is unknown and its tier Unknown.
C14_SummaryUnlessEmpty ==
    /\ df = <<>> => (qa_summary = NoSummary /\ dashboard = NoDashboard)
    /\ df # <<>> =>
        /\ qa_summary # NoSummary
        /\ DOMAIN qa_summary.projections = Present
        /\ (\A t \in Present : ~IsNumber(Proj(t))) =>
              /\ qa_summary.min_shelf_life = Unknown
              /\ dashboard.status_text = Undetermined

\* two attributes with one observation each: every projection is
\* InsufficientData
C14_Witness ==
    /\ Cardinality(Present) = 2
    /\ \A t \in Present : Proj(t) = InsufficientData
    /\ dashboard.status_text = Undetermined

\* the frame without the rows of test t
Without(t) == SelectSeq(df, LAMBDA r : r.test # t)

\* C15: calculate_projections returns one entry for every attribute present,
\* each entry is InsufficientData, NoThresholdApproach, AlreadyExceeded,
\* computation-failed or a number, and when the fit fails on one attribute the
\* entries of the other attributes are what they are without that attribute.
C15_FailureStaysLocal ==
    df # <<>> =>
        /\ DOMAIN qa_summary.projections = Present
        /\ \A t \in Present :
            /\ \/ Proj(t) \in {InsufficientData, NoThresholdApproach,
                                AlreadyExceeded, ComputationFailed}
               \/ IsNumber(Proj(t))
            /\ Proj(t) = ComputationFailed <=> t \in polyfit_raises
            /\ Proj(t) = ComputationFailed =>
                  \A u \in Present \ {t} :
                      Proj(u) = calculate_projections(Without(t), threshold_value,
                                                      polyfit_raises \ {t})[u]

\* the fit fails on one attribute while the other attribute has a numeric
\* projection
C15_Witness ==
    \E t, u \in Present :
        /\ Proj(t) = ComputationFailed
        /\ IsNumber(Proj(u))
        /\ qa_summary.min_shelf_life = Proj(u)

\* the label read as <number><unit>[-<suffix>]: k digits, one unit letter, and
\* then the end of the label or a '-'
Label == sample_name.chars
DigitsEnd ==
    {k \in 1..(Len(Label) - 1) :
        /\ \A i \in 1..k : Label[i] \in {"0", "1", "2", "3", "4", "5", "6", "7", "8", "9"}
        /\ Label[k + 1] \in {"D", "d", "W", "w", "M", "m"}
        /\ (Len(Label) = k + 1 \/ Label[k + 2] = "-")}
WellFormed == sample_name.is_str /\ DigitsEnd # {}
LabelUnit == Label[(CHOOSE k \in DigitsEnd : TRUE) + 1]
RECURSIVE Decimal(_)
Decimal(digits) ==
    IF digits = <<>> THEN 0
    ELSE 10 * Decimal(SubSeq(digits, 1, Len(digits) - 1))
         + (CHOOSE n \in 0..9 : DigitChars[n + 1] = digits[Len(digits)])
LabelNumber == Decimal(SubSeq(Label, 1, CHOOSE k \in DigitsEnd : TRUE))
\* the result is the number a/b of months
IsMonths(result, a, b) ==
    /\ result.kind = "float"
    /\ result.den > 0
    /\ result.num * b = a * result.den

\* C17: on a label <number><unit>[-<suffix>] parse_sample_name returns
\* number/30 for D, number/4.345 (= 200 number/869) for W and the number
\* itself for M, whatever the case of the unit letter and whatever follows
\* the first '-'.
C17_ConversionByUnit ==
    /\ WellFormed =>
        /\ LabelUnit \in {"D", "d"} => IsMonths(Time_Months, LabelNumber, 30)
        /\ LabelUnit \in {"W", "w"} => IsMonths(Time_Months, 200 * LabelNumber, 869)
        /\ LabelUnit \in {"M", "m"} => IsMonths(Time_Months, LabelNumber, 1)
    /\ IsMonths(parse_sample_name(Str(<<"0", "1", "M">>)), 1, 1)
    /\ IsMonths(parse_sample_name(Str(<<"0", "1", "m">>)), 1, 1)
    /\ IsMonths(parse_sample_name(Str(<<"0", "1", "M", "-", "R", "O">>)), 1, 1)
    /\ IsMonths(parse_sample_name(Str(<<"0", "1", "M", "-", "x", "-", "y">>)), 1, 1)
    /\ IsMonths(parse_sample_name(Str(<<"3", "0", "d", "-", "R", "O">>)), 1, 1)
    /\ IsMonths(parse_sample_name(Str(<<"0", "2", "w">>)), 400, 869)

\* a two-digit number, a lower-case unit and a suffix
C17_Witness ==
    /\ WellFormed
    /\ Label = <<"1", "3", "m", "-">>
    /\ Time_Months = Months(13, 1)
C17_ReachWeeks == WellFormed /\ LabelUnit = "W" /\ LabelNumber = 3 /\ Len(Label) = 4
C17_ReachDays == WellFormed /\ LabelUnit = "D" /\ LabelNumber = 30

\* C18: parse_sample_name is total: whatever the cell holds (any string, the
\* empty string, no digits, an unrecognised unit, several letters, or no
\* string at all) the result is a non-negative number or None, never an
\* exception.
C18_ParseTotal ==
    /\ Time_Months.kind \in {"float", "None"}
    /\ Time_Months.kind = "float" => (Time_Months.num >= 0 /\ Time_Months.den > 0)
    /\ parse_sample_name(NonString) = NoMonths
    /\ parse_sample_name(Str(<<>>)) = NoMonths
    /\ parse_sample_name(Str(<<"M">>)) = NoMonths
    /\ parse_sample_name(Str(<<"-", "1", "M">>)) = NoMonths
    /\ parse_sample_name(Str(<<"1", "X">>)) = NoMonths
    /\ parse_sample_name(Str(<<"1", "M", "M">>)) = NoMonths
    /\ parse_sample_name(Str(<<"1">>)) = NoMonths

\* the cell holds no string: the attribute error is caught and the result is
\* None
C18_Witness ==
    /\ ~sample_name.is_str
    /\ ParseBody(sample_name) = Raised
    /\ Time_Months = NoMonths
\* a label without digits, for which float("") raises
C18_ReachNoDigits ==
    /\ sample_name.is_str /\ Len(Label) = 3
    /\ \A i \in 1..Len(Label) : ~isdigit(Label[i])
    /\ ParseBody(sample_name) = Raised
    /\ Time_Months = NoMonths
\* digits with a unit of several letters
C18_ReachLongUnit == sample_name.is_str /\ Label = <<"1", "W", "M">> /\ Time_Months = NoMonths

\* the frame and threshold of the call, and the entries of its figure
Frame == composite_input.sensory_grouped
T == composite_input.threshold_value
Entries == fig_composite.composite_data
RowsAt(m) == {i \in 1..Len(Frame) : Frame[i].time = m}
\* the sum over the rows I of max(0, (T - value) * 100), i.e. of T * distance
RECURSIVE DistanceSum(_)
DistanceSum(I) ==
    IF I = {} THEN 0
    ELSE LET i == CHOOSE j \in I : TRUE
             d == (T - Frame[i].value) * 100
         IN (IF d > 0 THEN d ELSE 0) + DistanceSum(I \ {i})

\* C19: at each time point the quality index is 100 - mean(distance_i) with
\* distance_i = max(0, (threshold - value_i) / threshold * 100) over the
\* attributes observed at that time; so it is at most 100, it is 100 when every
\* attribute is at or above the threshold, and it is at least 0.
C19_QualityIndex ==
    fig_composite.fig =>
        \A k \in 1..Len(Entries) :
            LET e == Entries[k]
                I == RowsAt(e.Time_Months)
                n == Cardinality(I)
                q == e.Quality_Index
            IN /\ q.den > 0
               /\ (\A i \in I : ~Frame[i].nan) =>
                     /\ q.num * (n * T) = (100 * n * T - DistanceSum(I)) * q.den
                     /\ (\A i \in I : Frame[i].value >= T) => q.num = 100 * q.den
               /\ q.num <= 100 * q.den
               /\ q.num >= 0

\* a time point with two attributes, one below and one above the threshold
C19_Witness ==
    /\ fig_composite.fig
    /\ \E k \in 1..Len(Entries) :
          /\ Entries[k].Count = 2
          /\ \E i, j \in RowsAt(Entries[k].Time_Months) :
                /\ ~Frame[i].nan /\ ~Frame[j].nan
                /\ Frame[i].value < T /\ Frame[j].value > T
          /\ Entries[k].Quality_Index.num < 100 * Entries[k].Quality_Index.den
C19_ReachFull ==
    /\ fig_composite.fig
    /\ \E k \in 1..Len(Entries) :
          /\ \A i \in RowsAt(Entries[k].Time_Months) : ~Frame[i].nan /\ Frame[i].value >= T
          /\ Entries[k].Quality_Index.num = 100 * Entries[k].Quality_Index.den

\* the time points at which some attribute has a value
ValidTimes == {Frame[i].time : i \in {j \in 1..Len(Frame) : ~Frame[j].nan}}

\* C20 as stated: a figure is produced exactly when at least two time points
\* contribute an index value, None otherwise (empty input included), and a
\* time point at which no attribute has a value contributes no entry.
C20_TwoValidTimePoints ==
    /\ fig_composite.fig <=> Cardinality(ValidTimes) >= 2
    /\ fig_composite.fig =>
          {Entries[k].Time_Months : k \in 1..Len(Entries)} = ValidTimes

\* on frames in which every group has a value, the figure exists exactly when
\* the frame has two distinct months, with one entry per month
C20_OnFramesOfNumbers ==
    (\A i \in 1..Len(Frame) : ~Frame[i].nan) =>
        /\ fig_composite.fig <=> Cardinality(ValidTimes) >= 2
        /\ fig_composite.fig =>
              /\ {Entries[k].Time_Months : k \in 1..Len(Entries)} = ValidTimes
              /\ \A k \in 1..Len(Entries) : Entries[k].Count >= 1
C20_ReachOneMonthTwoTests ==
    /\ Len(Frame) = 2 /\ Cardinality(ValidTimes) = 1 /\ ~fig_composite.fig
    /\ \A i \in 1..Len(Frame) : ~Frame[i].nan

\* the observations of test t in the frame of the trend chart
TrendObs(t) == SelectSeq(trend_input.sensory_grouped, LAMBDA r : r.test = t)
TrendTests == {trend_input.sensory_grouped[i].test : i \in 1..Len(trend_input.sensory_grouped)}
\* the entry went through a division by the slope
DividedBySlope(e) == e.fitted /\ e.time_to_threshold.kind \in {"float", "inf"}

\* C21 as stated: the full-history regression is made only for an attribute
\* with at least 3 observations, over all of them, and a crossing is derived
\* from it only when its slope is > 0: with a slope <= 0 nothing is divided by
\* the slope.
C21_FullHistoryGuarded ==
    \A t \in DOMAIN fig_trend :
        LET e == fig_trend[t]
            g == TrendObs(t)
        IN /\ e.fitted =>
                /\ Len(g) >= 3
                /\ e.n = Len(g)
                /\ e.slope.num * SlopeDen(g) = SlopeNum(g) * e.slope.den
           /\ (e.fitted /\ SlopeNum(g) <= 0) => ~DividedBySlope(e)

\* what holds of the regression: it is made exactly for the attributes with a
\* numeric projection and at least 3 observations, over all observations
C21_FitOverHistory ==
    /\ DOMAIN fig_trend = TrendTests
    /\ \A t \in DOMAIN fig_trend :
        LET e == fig_trend[t]
            g == TrendObs(t)
        IN /\ e.fitted <=>
                (Len(g) >= 3 /\ IsNumber(ProjectGroup(g, trend_input.threshold_value)))
           /\ e.fitted =>
                /\ e.n = Len(g)
                /\ e.slope.den > 0
                /\ e.slope.num * SlopeDen(g) = SlopeNum(g) * e.slope.den
\* four observations whose whole history has slope 0 while the last three rise
C21_ReachZeroSlope ==
    \E t \in DOMAIN fig_trend :
        fig_trend[t].fitted /\ fig_trend[t].n = 4 /\ fig_trend[t].time_to_threshold = Infinite
\* four observations whose whole history falls while the last three rise
C21_ReachNegativeSlope ==
    \E t \in DOMAIN fig_trend :
        /\ fig_trend[t].fitted /\ fig_trend[t].slope.num < 0
        /\ fig_trend[t].time_to_threshold.kind = "float"

\* the orderings of n rows, and a group with its rows reordered, with row i
\* removed, with the value of row i changed, with one more row at the end
Orderings == [n \in 0..Cardinality(Times) |->
                {p \in [1..n -> 1..n] : \A i, j \in 1..n : i # j => p[i] # p[j]}]
Reordered(g, p) == [i \in 1..Len(g) |-> g[p[i]]]
Removed(g, i) == SubSeq(g, 1, i - 1) \o SubSeq(g, i + 1, Len(g))
Changed(g, i, v) == [g EXCEPT ![i].value = v]

\* the projection calculate_projections gave for test t of the frame
TrendProj(t) == trend_input.projections[t]
TrendWindowStart(t) == TrendObs(t)[Len(TrendObs(t)) - 2].time

\* C22: the projection of an attribute is the same for every ordering of its
\* rows, and with at least three observations left it does not change when an
\* observation earlier than the third-latest month is changed, removed or
\* added.
C22_WindowOnly ==
    \A t \in TrendTests :
        LET g == TrendObs(t)
            threshold == trend_input.threshold_value
        IN /\ \A p \in Orderings[Len(g)] :
                ProjectGroup(Reordered(g, p), threshold) = TrendProj(t)
           /\ Len(g) >= 4 =>
                \A i \in 1..(Len(g) - 3) :
                    /\ ProjectGroup(Removed(g, i), threshold) = TrendProj(t)
                    /\ \A v \in Values :
                          ProjectGroup(Changed(g, i, v), threshold) = TrendProj(t)
           /\ Len(g) >= 3 =>
                \A m \in Times, v \in Values :
                    m < TrendWindowStart(t) /\ (\A i \in 1..Len(g) : g[i].time # m)
                        => ProjectGroup(Append(g, Row(t, m, v)), threshold) = TrendProj(t)

\* four observations with a numeric projection, the earliest of them the
\* highest: every ordering, and the history without it, project the same
C22_Witness ==
    \E t \in TrendTests :
        /\ Len(TrendObs(t)) = 4
        /\ IsNumber(TrendProj(t))
        /\ TrendObs(t)[1].value > TrendObs(t)[4].value
        /\ ProjectGroup(Reordered(TrendObs(t), <<4, 3, 2, 1>>),
                        trend_input.threshold_value) = TrendProj(t)
\* three observations from month 2 on, so that a month can be added before
C22_ReachAddable ==
    \E t \in TrendTests :
        Len(TrendObs(t)) = 3 /\ TrendObs(t)[1].time = 2 /\ IsNumber(TrendProj(t))

\* C23 as stated: a label whose part before the first '-' is not a run of
\* digits immediately followed by one unit letter is malformed and yields None
\* ("1D2", "1.5M" and "M1" among them).
C23_MalformedYieldsNone ==
    (sample_name.is_str /\ ~WellFormed) => Time_Months = NoMonths

\* labels of the three kinds reach a month value: 13 days, 13 months, 1 month
C23_ReachDigitsAfterUnit ==
    /\ sample_name.is_str /\ Label = <<"1", "D", "3">> /\ Time_Months = Months(13, 30)
C23_ReachSeparator ==
    /\ sample_name.is_str /\ Label = <<"1", ".", "3", "M">> /\ Time_Months = Months(13, 1)
C23_ReachUnitFirst ==
    /\ sample_name.is_str /\ Label = <<"M", "1">> /\ Time_Months = Months(1, 1)

\* C24: when min_shelf_life is a number, closest_attr is not None: every
\* attribute with a numeric projection, the one giving the minimum included,
\* has its latest value strictly below the threshold; so the Critical tier
\* always has an attribute to name.
C24_CriticalAttributeExists ==
    (df # <<>> /\ IsNumber(qa_summary.min_shelf_life)) =>
        /\ qa_summary.closest_attr # None
        /\ qa_summary.closest_attr \in Present
        /\ \A t \in Present :
              Proj(t) = qa_summary.min_shelf_life => Latest(t).value < threshold_value
        /\ dashboard.status_text = Critical => qa_summary.closest_attr \in Present

\* the tier is Critical and the attribute named is not the one that gives the
\* minimum
C24_Witness ==
    /\ dashboard.status_text = Critical
    /\ IsNumber(qa_summary.min_shelf_life)
    /\ qa_summary.closest_attr # None
    /\ \E t \in Present :
          Proj(t) = qa_summary.min_shelf_life /\ t # qa_summary.closest_attr

\* C25: every summary is consistent with itself and with the frame:
\* fastest_attr is None exactly when change_rates is empty and otherwise one of
\* its keys; every key of change_rates has at least 3 observations;
\* closest_attr, when not None, is a key of latest_values, closest_attr_value
\* is its latest value and lies strictly below the threshold; projections and
\* latest_values have exactly the attributes of the frame as keys.
C25_SummaryConsistent ==
    df # <<>> =>
        /\ qa_summary.fastest_attr = None <=> Rated = {}
        /\ qa_summary.fastest_attr # None => qa_summary.fastest_attr \in Rated
        /\ \A t \in Rated : t \in Present /\ Len(Obs(t)) >= 3
        /\ qa_summary.closest_attr # None =>
              /\ qa_summary.closest_attr \in DOMAIN qa_summary.latest_values
              /\ qa_summary.closest_attr_value
                    = qa_summary.latest_values[qa_summary.closest_attr]
              /\ qa_summary.closest_attr_value = Latest(qa_summary.closest_attr).value
              /\ qa_summary.closest_attr_value < threshold_value
        /\ DOMAIN qa_summary.projections = Present
        /\ DOMAIN qa_summary.latest_values = Present
        /\ \A t \in Present : qa_summary.latest_values[t] = Latest(t).value

\* two attributes: one rated and fastest, the other with fewer than three
\* observations, unrated and closest to the threshold after having been higher
C25_Witness ==
    \E t, u \in Present :
        /\ t # u
        /\ qa_summary.fastest_attr = t
        /\ u \notin Rated
        /\ qa_summary.closest_attr = u
        /\ Obs(u)[1].value > Latest(u).value

\* positions of the threshold slider, 4.0 to 9.0
SliderStops == {40, 50, 55, 60, 62, 64, 65, 70, 90}

\* C26: for fixed observations of an attribute the projection is monotone in
\* the threshold: of two thresholds that both give a crossing month the lower
\* gives the earlier or equal month; raising the threshold never turns a
\* crossing month into AlreadyExceeded; lowering it to the latest value or
\* below does.
C26_MonotoneInThreshold ==
    \A t \in TrendTests :
        LET g == TrendObs(t)
            P == {[threshold |-> threshold, proj |-> ProjectGroup(g, threshold)] :
                      threshold \in SliderStops}
        IN /\ \E at \in P : at.threshold = trend_input.threshold_value /\ at.proj = TrendProj(t)
           /\ \A lo, hi \in P :
                lo.threshold <= hi.threshold =>
                    /\ (IsNumber(lo.proj) /\ IsNumber(hi.proj)) => lo.proj.val <= hi.proj.val
                    /\ IsNumber(lo.proj) => hi.proj # AlreadyExceeded
                    /\ (IsNumber(hi.proj) /\ lo.threshold <= g[Len(g)].value)
                           => lo.proj = AlreadyExceeded

\* a rising attribute with latest value 6.0: a crossing month at threshold 6.5,
\* a strictly earlier one at 6.2, AlreadyExceeded at 6.0
C26_Witness ==
    \E t \in TrendTests :
        /\ trend_input.threshold_value = 65
        /\ IsNumber(TrendProj(t))
        /\ TrendObs(t)[Len(TrendObs(t))].value = 60
        /\ IsNumber(ProjectGroup(TrendObs(t), 62))
        /\ ProjectGroup(TrendObs(t), 62).val < TrendProj(t).val
        /\ ProjectGroup(TrendObs(t), 60) = AlreadyExceeded
====
